---------------------------- MODULE Spec2Model ----------------------------
(***************************************************************************)
(* Model of the local model lifecycle manager NovaAI (src/ai/nova_ai.py).  *)
(*                                                                         *)
(* Threads: the UI thread issues start_load / switch_model / shutdown, a   *)
(* chat thread issues generate, every accepted start_load spawns one load  *)
(* worker thread, every armed threading.Timer is one timer thread.  Each   *)
(* action is one read or write of a shared attribute together with the     *)
(* thread-local work around it (lock acquire is merged with the statement  *)
(* that follows it, lock release with the statement that precedes it).     *)
(* A model or tokenizer handle is represented by the source name it was    *)
(* loaded from.                                                            *)
(***************************************************************************)
EXTENDS Integers, Sequences, FiniteSets, TLC

VARIABLES
    model_key,            \* self.model_key
    model_name,           \* self.model_name
    model,                \* self.model: None or the source name of the weights
    tokenizer,            \* self.tokenizer: None or the source name of the tokenizer
    _tokenizer_cache,     \* self._tokenizer_cache: source name -> tokenizer (None = no entry)
    is_loaded,            \* self.is_loaded
    is_loading,           \* self.is_loading
    _idle_timer,          \* self._idle_timer: 0 (None) or the index of a timer
    idle_unload_seconds,  \* self.idle_unload_seconds
    lock,                 \* owner of self._lock
    workers,              \* load worker threads (start_load._target), in spawn order
    timers,               \* threading.Timer objects, in creation order
    ui,                   \* the UI thread: position, calls issued, the call in progress or
                          \* last returned, its argument, the branch it took
    gen,                  \* the chat thread calling generate
    statuses,             \* status messages emitted so far through on_status
    idleUnloads,          \* _idle_unload invocations since an accepted generate() returned,
                          \* as long as no public call has been issued since (-1 otherwise)
    callbacks,            \* the registered callbacks: "ok" (they return) or "raise"
    escaped,              \* an exception raised by a callback has left _emit
    vram_limit_gb,        \* self.vram_limit_gb: <<>> (None) or <<v>>, v in tenths of a GB
    total_memory_gb,      \* the accelerator memory torch reports, in tenths of a GB
                          \* (0 = no accelerator, or force_cpu)
    selected,             \* the key auto_select_model_key() returned last (None = not called)
    decode,               \* a generation entry point, the temperature it is called with
                          \* (in tenths) and the decoding arguments it hands to the model
    stream,               \* a generate_stream() call: the position of its consumer, the
                          \* background generation thread, the queue of the streamer
                          \* between them, the fragments yielded
    chat,                 \* a chat worker (AIWorker or OptimizedAIWorker): its _stopped
                          \* flag, its position, what it has called and emitted
    local,                \* a LocalAI manager: its flags, the threads calling start_load,
                          \* the load workers it has spawned
    coord                 \* an AIToolCoordinator: _pending_confirmation, clean_tune_page,
                          \* and what process_message did with the last message

vars == <<model_key, model_name, model, tokenizer, _tokenizer_cache, is_loaded,
          is_loading, _idle_timer, idle_unload_seconds, lock, workers, timers,
          ui, gen, statuses, idleUnloads, callbacks, escaped, vram_limit_gb,
          total_memory_gb, selected, decode, stream, chat, local, coord>>

\* the observer side of the callbacks
observer == <<callbacks, escaped>>

\* the hardware budget and the key selected under it
budget == <<vram_limit_gb, total_memory_gb, selected>>

\* what lies outside the lifecycle of one NovaAI manager
outside == <<decode, stream, chat, local, coord>>

-----------------------------------------------------------------------------
(* Bounds of the model *)

MaxCalls == 2
MaxGen == 1
\* the largest amount of memory, in tenths of a GB, a ceiling or an accelerator has
MaxVram == 80
\* the largest temperature, in tenths, a caller passes
MaxTemp == 20
\* the largest number of text fragments a generation produces
MaxFragments == 2
\* the largest number of messages a coordinator is given
MaxMsgs == 3

(* Program constants *)

None == "None"

MODELS ==
    [k \in {"mistral-7b", "phi3-mini", "deepseek-1.5b", "qwen2.5-1.5b"} |->
        CASE k = "mistral-7b" -> "mistralai/Mistral-7B-Instruct-v0.2"
          [] k = "phi3-mini" -> "microsoft/Phi-3.5-mini-instruct"
          [] k = "deepseek-1.5b" -> "deepseek-ai/DeepSeek-R1-Distill-Qwen-1.5B"
          [] k = "qwen2.5-1.5b" -> "Qwen/Qwen2.5-1.5B-Instruct"]

\* the estimated footprints, in tenths of a GB
VRAM_REQ_GB ==
    [k \in {"mistral-7b", "phi3-mini", "deepseek-1.5b", "qwen2.5-1.5b"} |->
        CASE k = "mistral-7b" -> 60
          [] k = "phi3-mini" -> 30
          [] k = "deepseek-1.5b" -> 20
          [] k = "qwen2.5-1.5b" -> 15]

DefaultModelKey == "phi3-mini"
DefaultIdleSeconds == 600

\* the keys the callers pass to switch_model: two registered ones and one that is not
SwitchKeys == {"phi3-mini", "mistral-7b", "llama-70b"}
\* the sources a load can read (the values of model_name the callers can set)
Sources == {MODELS[k] : k \in SwitchKeys \cap DOMAIN MODELS}
\* the settings a manager is constructed with
IdleSettings == {0, DefaultIdleSeconds}

(* Thread identities *)

NoThread == <<"none", 0>>
UI == <<"ui", 0>>
W(i) == <<"w", i>>
T(i) == <<"t", i>>

(* Return values and status messages *)

NotReady == "Model not ready."
OutOfMemory == "Out of GPU memory."
GenerationError == "Generation error"
Text == "text"

(* The chat workers and the threads that call LocalAI.start_load *)

ChatWorkers == {"AIWorker", "OptimizedAIWorker"}
Callers == {"A", "B"}

(* Generation entry points *)

Entries == {"NovaAI.generate", "NovaAI.generate_stream", "LocalAI.generate"}

\* no decoding argument has been built
NoKwargs == [do_sample |-> FALSE, temperature |-> <<>>, top_p |-> <<>>, top_k |-> <<>>]

-----------------------------------------------------------------------------
\* __init__(), lines 54-71: the attributes of a new manager
constructed ==
    /\ model_key = DefaultModelKey
    /\ model_name = MODELS[DefaultModelKey]
    /\ model = None
    /\ tokenizer = None
    /\ _tokenizer_cache = [s \in Sources |-> None]
    /\ is_loaded = FALSE
    /\ is_loading = FALSE
    /\ _idle_timer = 0
    /\ idle_unload_seconds \in IdleSettings
    /\ lock = NoThread
    /\ escaped = FALSE
    /\ selected = None

\* no thread has been started, no call has been issued
quiet ==
    /\ workers = <<>>
    /\ timers = <<>>
    /\ ui = [pc |-> "idle", calls |-> 0, op |-> None, key |-> None, path |-> None]
    /\ gen = [pc |-> "idle", calls |-> 0, t |-> 0, ret |-> None]
    /\ statuses = {}
    /\ idleUnloads = -1

\* nothing outside the manager is in use
no_decode ==
    decode = [entry |-> None, temperature |-> 0, called |-> FALSE, kwargs |-> NoKwargs]

no_stream ==
    stream = [pc |-> "idle", thread |-> "none", queue |-> <<>>, made |-> 0, last |-> None]

no_chat ==
    chat = [kind |-> None, coordinator |-> FALSE, tool |-> FALSE, _stopped |-> FALSE,
            pc |-> "none", stoppedAt |-> None, generated |-> FALSE, emitted |-> None]

\* LocalAI.__init__, src/ai/local_ai.py lines 51-69; no thread calls it
no_local ==
    local = [is_loading |-> FALSE, is_loaded |-> FALSE, model |-> None, tokenizer |-> None,
             _idle_timer |-> 0, pc |-> [c \in Callers |-> "off"], workers |-> <<>>]

\* AIToolCoordinator.__init__, src/ai/ai_tool_coordinator.py lines 69-73: nothing
\* is pending; no message has been processed
new_coord(page) ==
    [_pending_confirmation |-> None, clean_tune_page |-> page, n |-> 0, msg |-> <<>>,
     match |-> [tool |-> "none", confidence |-> 0], response |-> None, named |-> None,
     launched |-> None, prompted |-> {}]

no_coord == coord = new_coord(FALSE)

unused == no_decode /\ no_stream /\ no_chat /\ no_local /\ no_coord

\* a new manager with no ceiling (line 52), no accelerator, well-behaved callbacks
Init ==
    /\ constructed
    /\ quiet
    /\ unused
    /\ callbacks = "ok"
    /\ vram_limit_gb = <<>>
    /\ total_memory_gb = 0


-----------------------------------------------------------------------------
(* The statements shared by several threads.  Each is a change of the      *)
(* manager's attributes; the calling thread's own position is changed by   *)
(* the action that uses it.                                                *)

\* _emit() without the try / except of lines 83-86
_emit_unguarded(raised) == raised

\* _emit(), lines 82-86, tells whether the exception of a raising callback leaves
\* it: the call is wrapped in try / except Exception, nothing does
_emit(raised) == FALSE

\* a callback is invoked through _emit()
emit ==
    /\ escaped' = (escaped \/ _emit(callbacks = "raise"))
    /\ UNCHANGED callbacks

\* _emit_status(s): on_status is called with s
emit_status(s) == statuses' = statuses \cup {s} /\ emit

\* several status messages in a row
emit_statuses(S) == statuses' = statuses \cup S /\ emit

\* unload(), lines 129-135: take the lock, announce, release the weights handle
unload_enter(self) ==
    /\ lock = NoThread
    /\ lock' = self
    /\ emit_status("Unloading model...")
    /\ model' = None
    /\ UNCHANGED <<model_key, model_name, tokenizer, _tokenizer_cache, is_loaded,
                   is_loading, _idle_timer, idle_unload_seconds, budget, outside>>

\* unload() without the finally clause of lines 142-145
unload_exit_keeps_loaded(self) ==
    /\ lock = self
    /\ lock' = NoThread
    /\ UNCHANGED <<model_key, model_name, model, tokenizer, _tokenizer_cache, is_loaded,
                   is_loading, _idle_timer, idle_unload_seconds, budget, outside, statuses, observer>>

\* unload() that leaves _lock held when it returns
unload_exit_keeps_lock(self) ==
    /\ lock = self
    /\ lock' = lock
    /\ is_loaded' = FALSE
    /\ UNCHANGED <<model_key, model_name, model, tokenizer, _tokenizer_cache,
                   is_loading, _idle_timer, idle_unload_seconds, budget, outside, statuses, observer>>

\* unload(), lines 142-145: the finally clause, then the lock is released
unload_exit(self) ==
    /\ lock = self
    /\ lock' = NoThread
    /\ is_loaded' = FALSE
    /\ UNCHANGED <<model_key, model_name, model, tokenizer, _tokenizer_cache,
                   is_loading, _idle_timer, idle_unload_seconds, budget, outside, statuses, observer>>

\* threading.Timer.cancel(): stops a timer that has not fired yet
cancel(ts, t) ==
    IF t # 0 /\ ts[t] = "armed" THEN [ts EXCEPT ![t] = "cancelled"] ELSE ts

\* _cancel_idle_timer(), lines 400-404: cancel the timer the attribute names
_cancel_idle_timer_cancel ==
    /\ timers' = cancel(timers, _idle_timer)
    /\ UNCHANGED <<model_key, model_name, model, tokenizer, _tokenizer_cache, is_loaded,
                   is_loading, _idle_timer, idle_unload_seconds, budget, outside, lock, statuses, observer>>

\* _cancel_idle_timer(), line 405
_cancel_idle_timer_clear ==
    /\ _idle_timer' = 0
    /\ UNCHANGED <<model_key, model_name, model, tokenizer, _tokenizer_cache, is_loaded,
                   is_loading, idle_unload_seconds, budget, outside, lock, statuses, observer, timers>>

\* _start_idle_timer(), line 389: no timer when the idle unload is switched off
idle_disabled == idle_unload_seconds <= 0

\* _start_idle_timer(), lines 391-393: a new timer is created and started
_start_idle_timer_start ==
    /\ timers' = Append(timers, "armed")
    /\ UNCHANGED <<model_key, model_name, model, tokenizer, _tokenizer_cache, is_loaded,
                   is_loading, _idle_timer, idle_unload_seconds, budget, outside, lock, statuses, observer>>

\* _start_idle_timer(), line 394
_start_idle_timer_assign(t) ==
    /\ _idle_timer' = t
    /\ UNCHANGED <<model_key, model_name, model, tokenizer, _tokenizer_cache, is_loaded,
                   is_loading, idle_unload_seconds, budget, outside, lock, statuses, observer, timers>>

\* nothing of the manager changes
mgr_unchanged ==
    UNCHANGED <<model_key, model_name, model, tokenizer, _tokenizer_cache, is_loaded,
                is_loading, _idle_timer, idle_unload_seconds, budget, outside, lock, statuses, observer>>

\* a new load worker, at the first statement of _target; prog is the value its run
\* passed to on_progress last
new_worker ==
    [pc |-> "begin", tok |-> None, mdl |-> None, t |-> 0, out |-> "none", prog |-> 0]

\* _emit_progress(v), line 88: the value on_progress receives
clamp(v) == IF v < 0 THEN 0 ELSE IF v > 100 THEN 100 ELSE v

-----------------------------------------------------------------------------
(* The UI thread: start_load, switch_model, shutdown *)

\* the UI issues a public call
ui_call(op, key) ==
    /\ ui.pc = "idle"
    /\ ui.calls < MaxCalls
    /\ ui' = [pc |-> op, calls |-> ui.calls + 1, op |-> op, key |-> key, path |-> None]
    /\ idleUnloads' = -1
    /\ mgr_unchanged
    /\ UNCHANGED <<workers, timers, gen>>

\* the call of the UI returns, having taken branch b
returned(u, b) == [u EXCEPT !.pc = "idle", !.key = None, !.path = b]

\* the value the last call of the UI returned
ui_ret ==
    IF ui.op = "switch_model"
    THEN (IF ui.path = "unknown" THEN "Unknown model" ELSE "Loading")
    ELSE None

\* the UI calls start_load()
ui_call_start_load == ui_call("start_load", None)

\* the UI calls switch_model(new_key)
ui_call_switch_model == \E k \in SwitchKeys : ui_call("switch_model", k)

\* the UI calls shutdown()
ui_call_shutdown == ui_call("shutdown", None)

\* unload() is called on its own
ui_call_unload == ui_call("unload", None)

\* start_load() without the is_loaded test of line 204
start_load_unguarded ==
    /\ ui.pc = "start_load"
    /\ lock = NoThread
    /\ ui' = [ui EXCEPT !.pc = "sl_loading"]
    /\ lock' = UI
    /\ UNCHANGED <<model_key, model_name, model, tokenizer, _tokenizer_cache, is_loaded,
                   is_loading, _idle_timer, idle_unload_seconds, budget, outside, statuses, observer>>
    /\ UNCHANGED <<workers, timers, gen, idleUnloads>>

\* start_load(), lines 203-205: under the lock, is_loaded is read
start_load_loaded ==
    /\ ui.pc = "start_load"
    /\ lock = NoThread
    /\ IF is_loaded
       THEN /\ ui' = returned(ui, "loaded")
            /\ lock' = lock
       ELSE /\ ui' = [ui EXCEPT !.pc = "sl_loading"]
            /\ lock' = UI
    /\ UNCHANGED <<model_key, model_name, model, tokenizer, _tokenizer_cache, is_loaded,
                   is_loading, _idle_timer, idle_unload_seconds, budget, outside, statuses, observer>>
    /\ UNCHANGED <<workers, timers, gen, idleUnloads>>

\* start_load(), lines 204-206 and 235: is_loading is read; when it is clear it is
\* set, the lock is released and the worker thread is started
start_load_loading ==
    /\ ui.pc = "sl_loading"
    /\ lock = UI
    /\ lock' = NoThread
    /\ IF is_loading
       THEN /\ ui' = returned(ui, "loading")
            /\ UNCHANGED <<is_loading, workers>>
       ELSE /\ ui' = returned(ui, "spawned")
            /\ is_loading' = TRUE
            /\ workers' = Append(workers, new_worker)
    /\ UNCHANGED <<model_key, model_name, model, tokenizer, _tokenizer_cache, is_loaded,
                   _idle_timer, idle_unload_seconds, budget, outside, statuses, observer>>
    /\ UNCHANGED <<timers, gen, idleUnloads>>

\* switch_model() without the registry test of line 370
any_model(k) == TRUE

\* switch_model(), line 370: is new_key registered
known_model(k) == k \in DOMAIN MODELS

\* switch_model(), lines 370-374
switch_model_key ==
    /\ ui.pc = "switch_model"
    /\ IF ~known_model(ui.key)
       THEN /\ ui' = returned(ui, "unknown")
            /\ UNCHANGED <<model_key, statuses, observer>>
       ELSE /\ emit_status("Switching")
            /\ model_key' = ui.key
            /\ ui' = [ui EXCEPT !.pc = "sw_name"]
    /\ UNCHANGED <<model_name, model, tokenizer, _tokenizer_cache, is_loaded,
                   is_loading, _idle_timer, idle_unload_seconds, budget, outside, lock>>
    /\ UNCHANGED <<workers, timers, gen, idleUnloads>>

\* switch_model(), line 375
switch_model_name ==
    /\ ui.pc = "sw_name"
    /\ model_name' = MODELS[ui.key]
    /\ ui' = [ui EXCEPT !.pc = "unload"]
    /\ UNCHANGED <<model_key, model, tokenizer, _tokenizer_cache, is_loaded,
                   is_loading, _idle_timer, idle_unload_seconds, budget, outside, lock, statuses, observer>>
    /\ UNCHANGED <<workers, timers, gen, idleUnloads>>

\* unload() called by switch_model (line 376) or shutdown (line 413), or on its own
ui_unload_enter ==
    /\ ui.pc = "unload"
    /\ unload_enter(UI)
    /\ ui' = [ui EXCEPT !.pc = "un_exit"]
    /\ UNCHANGED <<workers, timers, gen, idleUnloads>>

ui_unload_exit ==
    /\ ui.pc = "un_exit"
    /\ unload_exit(UI)
    /\ ui' = IF ui.op = "switch_model"
             THEN [ui EXCEPT !.pc = "start_load"]
             ELSE IF ui.op = "shutdown"
             THEN [returned(ui, "unloaded") EXCEPT !.pc = "shut"]
             ELSE returned(ui, "unloaded")
    /\ UNCHANGED <<workers, timers, gen, idleUnloads>>

\* shutdown(), line 412
shutdown_cancel ==
    /\ ui.pc = "shutdown"
    /\ _cancel_idle_timer_cancel
    /\ ui' = [ui EXCEPT !.pc = "sh_clear"]
    /\ UNCHANGED <<workers, gen, idleUnloads>>

shutdown_clear ==
    /\ ui.pc = "sh_clear"
    /\ _cancel_idle_timer_clear
    /\ ui' = [ui EXCEPT !.pc = "unload"]
    /\ UNCHANGED <<workers, gen, idleUnloads>>

UIStep ==
    \/ ui_call_start_load
    \/ ui_call_switch_model
    \/ ui_call_shutdown
    \/ start_load_loaded
    \/ start_load_loading
    \/ switch_model_key
    \/ switch_model_name
    \/ ui_unload_enter
    \/ ui_unload_exit
    \/ shutdown_cancel
    \/ shutdown_clear

-----------------------------------------------------------------------------
(* A load worker: start_load._target, lines 208-233 *)

at(i, loc) == i \in DOMAIN workers /\ workers[i].pc = loc

goto(i, loc) == workers' = [workers EXCEPT ![i].pc = loc]

\* the worker goes on at loc, having passed v to _emit_progress
goto_at(i, loc, v) == workers' = [workers EXCEPT ![i].pc = loc, ![i].prog = clamp(v)]

\* the worker has returned: its locals are dropped
finished(w, result) ==
    [pc |-> "done", tok |-> None, mdl |-> None, t |-> 0, out |-> result, prog |-> w.prog]

\* lines 210-211: the load is announced
w_begin(i) ==
    /\ at(i, "begin")
    /\ emit_status("Beginning model load...")
    /\ goto_at(i, "unload", 10)
    /\ UNCHANGED <<model_key, model_name, model, tokenizer, _tokenizer_cache, is_loaded,
                   is_loading, _idle_timer, idle_unload_seconds, budget, outside, lock>>
    /\ UNCHANGED <<timers, ui, gen, idleUnloads>>

\* line 212: unload() is entered (lines 129-135)
w_unload_enter(i) ==
    /\ at(i, "unload")
    /\ unload_enter(W(i))
    /\ goto_at(i, "un_exit", 5)
    /\ UNCHANGED <<timers, ui, gen, idleUnloads>>

\* unload() returns (lines 142-145)
w_unload_exit(i) ==
    /\ at(i, "un_exit")
    /\ unload_exit(W(i))
    /\ goto_at(i, "tokenizer", 15)
    /\ UNCHANGED <<timers, ui, gen, idleUnloads>>

\* _load_tokenizer(), lines 148-150: is model_name in the cache
w_tokenizer(i) ==
    /\ at(i, "tokenizer")
    /\ emit_status("Loading tokenizer...")
    /\ IF _tokenizer_cache[model_name] # None
       THEN goto_at(i, "tok_cached", 30)
       ELSE goto_at(i, "tok_fetch", 30)
    /\ UNCHANGED <<model_key, model_name, model, tokenizer, _tokenizer_cache, is_loaded,
                   is_loading, _idle_timer, idle_unload_seconds, budget, outside, lock>>
    /\ UNCHANGED <<timers, ui, gen, idleUnloads>>

\* _load_tokenizer(), line 152: the entry of model_name, read again, is returned;
\* a missing entry is a KeyError, caught at line 231
w_tok_cached(i) ==
    /\ at(i, "tok_cached")
    /\ IF _tokenizer_cache[model_name] # None
       THEN workers' = [workers EXCEPT ![i].pc = "set_tok", ![i].prog = clamp(40),
                                       ![i].tok = _tokenizer_cache[model_name]]
       ELSE workers' = [workers EXCEPT ![i].pc = "fail", ![i].prog = clamp(40),
                                       ![i].out = "KeyError"]
    /\ mgr_unchanged
    /\ UNCHANGED <<timers, ui, gen, idleUnloads>>

\* _load_tokenizer(), lines 153-160: AutoTokenizer.from_pretrained(self.model_name)
\* returns the tokenizer of that source
w_tok_fetch(i) ==
    /\ at(i, "tok_fetch")
    /\ workers' = [workers EXCEPT ![i].pc = "tok_store", ![i].tok = model_name]
    /\ mgr_unchanged
    /\ UNCHANGED <<timers, ui, gen, idleUnloads>>

\* ... or raises
w_tok_fetch_raises(i) ==
    /\ at(i, "tok_fetch")
    /\ workers' = [workers EXCEPT ![i].pc = "fail", ![i].out = "tokenizer raised"]
    /\ mgr_unchanged
    /\ UNCHANGED <<timers, ui, gen, idleUnloads>>

\* _load_tokenizer(), line 161
w_tok_store(i) ==
    /\ at(i, "tok_store")
    /\ _tokenizer_cache' = [_tokenizer_cache EXCEPT ![model_name] = workers[i].tok]
    /\ goto_at(i, "set_tok", 40)
    /\ UNCHANGED <<model_key, model_name, model, tokenizer, is_loaded,
                   is_loading, _idle_timer, idle_unload_seconds, budget, outside, lock, statuses, observer>>
    /\ UNCHANGED <<timers, ui, gen, idleUnloads>>

\* line 213
w_set_tokenizer(i) ==
    /\ at(i, "set_tok")
    /\ tokenizer' = workers[i].tok
    /\ goto(i, "weights")
    /\ UNCHANGED <<model_key, model_name, model, _tokenizer_cache, is_loaded,
                   is_loading, _idle_timer, idle_unload_seconds, budget, outside, lock, statuses, observer>>
    /\ UNCHANGED <<timers, ui, gen, idleUnloads>>

\* _load_model_weights(), lines 166-200: progress 55, then AutoModelForCausalLM.
\* from_pretrained(self.model_name) returns the weights of that source, progress 80
w_weights(i) ==
    /\ at(i, "weights")
    /\ emit_statuses({"Loading model weights...", "Finalizing..."})
    /\ workers' = [workers EXCEPT ![i].pc = "set_model", ![i].mdl = model_name,
                                  ![i].prog = clamp(80)]
    /\ UNCHANGED <<model_key, model_name, model, tokenizer, _tokenizer_cache, is_loaded,
                   is_loading, _idle_timer, idle_unload_seconds, budget, outside, lock>>
    /\ UNCHANGED <<timers, ui, gen, idleUnloads>>

\* ... or raises
w_weights_raises(i) ==
    /\ at(i, "weights")
    /\ emit_status("Loading model weights...")
    /\ workers' = [workers EXCEPT ![i].pc = "fail", ![i].out = "weights raised",
                                  ![i].prog = clamp(55)]
    /\ UNCHANGED <<model_key, model_name, model, tokenizer, _tokenizer_cache, is_loaded,
                   is_loading, _idle_timer, idle_unload_seconds, budget, outside, lock>>
    /\ UNCHANGED <<timers, ui, gen, idleUnloads>>

\* line 214
w_set_model(i) ==
    /\ at(i, "set_model")
    /\ model' = workers[i].mdl
    /\ goto(i, "set_loaded")
    /\ UNCHANGED <<model_key, model_name, tokenizer, _tokenizer_cache, is_loaded,
                   is_loading, _idle_timer, idle_unload_seconds, budget, outside, lock, statuses, observer>>
    /\ UNCHANGED <<timers, ui, gen, idleUnloads>>

\* line 215
w_set_loaded(i) ==
    /\ at(i, "set_loaded")
    /\ is_loaded' = TRUE
    /\ goto(i, "clear_loading")
    /\ UNCHANGED <<model_key, model_name, model, tokenizer, _tokenizer_cache,
                   is_loading, _idle_timer, idle_unload_seconds, budget, outside, lock, statuses, observer>>
    /\ UNCHANGED <<timers, ui, gen, idleUnloads>>

\* lines 216-218
w_clear_loading(i) ==
    /\ at(i, "clear_loading")
    /\ is_loading' = FALSE
    /\ emit_status("Model ready")
    /\ goto_at(i, "warmup", 100)
    /\ UNCHANGED <<model_key, model_name, model, tokenizer, _tokenizer_cache, is_loaded,
                   _idle_timer, idle_unload_seconds, budget, outside, lock>>
    /\ UNCHANGED <<timers, ui, gen, idleUnloads>>

\* lines 221-226: warm-up and benchmark; whatever they raise is discarded
w_warmup(i) ==
    /\ at(i, "warmup")
    /\ goto(i, "emit_loaded")
    /\ mgr_unchanged
    /\ UNCHANGED <<timers, ui, gen, idleUnloads>>

\* lines 228-229: the loaded callback
w_emit_loaded(i) ==
    /\ at(i, "emit_loaded")
    /\ workers' = [workers EXCEPT ![i].pc = "tc_cancel", ![i].out = "loaded"]
    /\ emit
    /\ UNCHANGED <<model_key, model_name, model, tokenizer, _tokenizer_cache, is_loaded,
                   is_loading, _idle_timer, idle_unload_seconds, budget, outside, lock, statuses>>
    /\ UNCHANGED <<timers, ui, gen, idleUnloads>>

\* line 230: _start_idle_timer(), its _cancel_idle_timer() first
w_timer_cancel(i) ==
    /\ at(i, "tc_cancel")
    /\ _cancel_idle_timer_cancel
    /\ goto(i, "tc_clear")
    /\ UNCHANGED <<ui, gen, idleUnloads>>

w_timer_clear(i) ==
    /\ at(i, "tc_clear")
    /\ _cancel_idle_timer_clear
    /\ goto(i, "timer_start")
    /\ UNCHANGED <<ui, gen, idleUnloads>>

\* _start_idle_timer(), lines 389-393
w_timer_start(i) ==
    /\ at(i, "timer_start")
    /\ IF idle_disabled
       THEN /\ workers' = [workers EXCEPT ![i] = finished(@, @.out)]
            /\ mgr_unchanged
            /\ UNCHANGED timers
       ELSE /\ _start_idle_timer_start
            /\ workers' = [workers EXCEPT ![i].pc = "timer_assign",
                                          ![i].t = Len(timers) + 1]
    /\ UNCHANGED <<ui, gen, idleUnloads>>

\* _start_idle_timer(), line 394
w_timer_assign(i) ==
    /\ at(i, "timer_assign")
    /\ _start_idle_timer_assign(workers[i].t)
    /\ workers' = [workers EXCEPT ![i] = finished(@, @.out)]
    /\ UNCHANGED <<ui, gen, idleUnloads>>

\* line 232: the except clause
w_fail(i) ==
    /\ at(i, "fail")
    /\ is_loading' = FALSE
    /\ goto(i, "fail_status")
    /\ UNCHANGED <<model_key, model_name, model, tokenizer, _tokenizer_cache, is_loaded,
                   _idle_timer, idle_unload_seconds, budget, outside, lock, statuses, observer>>
    /\ UNCHANGED <<timers, ui, gen, idleUnloads>>

\* line 233
w_fail_status(i) ==
    /\ at(i, "fail_status")
    /\ emit_status("Load failed")
    /\ workers' = [workers EXCEPT ![i] = finished(@, "failed")]
    /\ UNCHANGED <<model_key, model_name, model, tokenizer, _tokenizer_cache, is_loaded,
                   is_loading, _idle_timer, idle_unload_seconds, budget, outside, lock>>
    /\ UNCHANGED <<timers, ui, gen, idleUnloads>>

WorkerStep ==
    \/ \E i \in DOMAIN workers : w_begin(i)
    \/ \E i \in DOMAIN workers : w_unload_enter(i)
    \/ \E i \in DOMAIN workers : w_unload_exit(i)
    \/ \E i \in DOMAIN workers : w_tokenizer(i)
    \/ \E i \in DOMAIN workers : w_tok_cached(i)
    \/ \E i \in DOMAIN workers : w_tok_fetch(i)
    \/ \E i \in DOMAIN workers : w_tok_fetch_raises(i)
    \/ \E i \in DOMAIN workers : w_tok_store(i)
    \/ \E i \in DOMAIN workers : w_set_tokenizer(i)
    \/ \E i \in DOMAIN workers : w_weights(i)
    \/ \E i \in DOMAIN workers : w_weights_raises(i)
    \/ \E i \in DOMAIN workers : w_set_model(i)
    \/ \E i \in DOMAIN workers : w_set_loaded(i)
    \/ \E i \in DOMAIN workers : w_clear_loading(i)
    \/ \E i \in DOMAIN workers : w_warmup(i)
    \/ \E i \in DOMAIN workers : w_emit_loaded(i)
    \/ \E i \in DOMAIN workers : w_timer_cancel(i)
    \/ \E i \in DOMAIN workers : w_timer_clear(i)
    \/ \E i \in DOMAIN workers : w_timer_start(i)
    \/ \E i \in DOMAIN workers : w_timer_assign(i)
    \/ \E i \in DOMAIN workers : w_fail(i)
    \/ \E i \in DOMAIN workers : w_fail_status(i)

-----------------------------------------------------------------------------
(* The chat thread: generate, lines 261-307 *)

\* the chat thread calls generate()
gen_call ==
    /\ gen.pc = "idle"
    /\ gen.calls < MaxGen
    /\ gen' = [pc |-> "generate", calls |-> gen.calls + 1, t |-> 0, ret |-> None]
    /\ idleUnloads' = -1
    /\ mgr_unchanged
    /\ UNCHANGED <<workers, timers, ui>>

\* generate() without the is_loaded test of line 262
generate_unchecked ==
    /\ gen.pc = "generate"
    /\ gen' = [gen EXCEPT !.pc = "g_model"]
    /\ mgr_unchanged
    /\ UNCHANGED <<workers, timers, ui, idleUnloads>>

\* line 262, left operand: not self.is_loaded
generate_loaded ==
    /\ gen.pc = "generate"
    /\ gen' = IF ~is_loaded
              THEN [gen EXCEPT !.pc = "idle", !.ret = NotReady]
              ELSE [gen EXCEPT !.pc = "g_model"]
    /\ mgr_unchanged
    /\ UNCHANGED <<workers, timers, ui, idleUnloads>>

\* line 262, right operand: self.model is None
generate_model ==
    /\ gen.pc = "g_model"
    /\ gen' = IF model = None
              THEN [gen EXCEPT !.pc = "idle", !.ret = NotReady]
              ELSE [gen EXCEPT !.pc = "tc_cancel"]
    /\ mgr_unchanged
    /\ UNCHANGED <<workers, timers, ui, idleUnloads>>

\* line 264: _reset_idle_timer()
g_timer_cancel ==
    /\ gen.pc = "tc_cancel"
    /\ _cancel_idle_timer_cancel
    /\ gen' = [gen EXCEPT !.pc = "tc_clear"]
    /\ UNCHANGED <<workers, ui, idleUnloads>>

g_timer_clear ==
    /\ gen.pc = "tc_clear"
    /\ _cancel_idle_timer_clear
    /\ gen' = [gen EXCEPT !.pc = "timer_start"]
    /\ UNCHANGED <<workers, ui, idleUnloads>>

g_timer_start ==
    /\ gen.pc = "timer_start"
    /\ IF idle_disabled
       THEN /\ gen' = [gen EXCEPT !.pc = "run"]
            /\ mgr_unchanged
            /\ UNCHANGED timers
       ELSE /\ _start_idle_timer_start
            /\ gen' = [gen EXCEPT !.pc = "timer_assign", !.t = Len(timers) + 1]
    /\ UNCHANGED <<workers, ui, idleUnloads>>

g_timer_assign ==
    /\ gen.pc = "timer_assign"
    /\ _start_idle_timer_assign(gen.t)
    /\ gen' = [gen EXCEPT !.pc = "run", !.t = 0]
    /\ UNCHANGED <<workers, ui, idleUnloads>>

\* generate() whose out-of-memory handler gives the model up
generate_run_drops_model ==
    /\ gen.pc = "run"
    /\ \E r \in (IF model = None THEN {GenerationError} ELSE {Text, OutOfMemory}) :
         /\ gen' = [gen EXCEPT !.pc = "idle", !.ret = r]
         /\ model' = IF r = OutOfMemory THEN None ELSE model
         /\ is_loaded' = IF r = OutOfMemory THEN FALSE ELSE is_loaded
    /\ idleUnloads' = 0
    /\ UNCHANGED <<model_key, model_name, tokenizer, _tokenizer_cache, is_loading,
                   _idle_timer, idle_unload_seconds, budget, outside, lock, statuses, observer>>
    /\ UNCHANGED <<workers, timers, ui>>

\* lines 266-307: self.model.generate(...) on the handle read at line 296; the
\* accelerator may run out of memory; an absent handle is an AttributeError
generate_run ==
    /\ gen.pc = "run"
    /\ \E r \in (IF model = None THEN {GenerationError} ELSE {Text, OutOfMemory}) :
         gen' = [gen EXCEPT !.pc = "idle", !.ret = r]
    /\ idleUnloads' = 0
    /\ mgr_unchanged
    /\ UNCHANGED <<workers, timers, ui>>

GenStep ==
    \/ gen_call
    \/ generate_loaded
    \/ generate_model
    \/ g_timer_cancel
    \/ g_timer_clear
    \/ g_timer_start
    \/ g_timer_assign
    \/ generate_run

-----------------------------------------------------------------------------
(* A timer thread: threading.Timer running _idle_unload, lines 407-409 *)

\* the interval has elapsed and the timer was not cancelled: line 408
timer_fire(t) ==
    /\ timers[t] = "armed"
    /\ timers' = [timers EXCEPT ![t] = "unload"]
    /\ emit_status("Idle timeout")
    /\ idleUnloads' = IF idleUnloads < 0 THEN idleUnloads ELSE idleUnloads + 1
    /\ UNCHANGED <<model_key, model_name, model, tokenizer, _tokenizer_cache, is_loaded,
                   is_loading, _idle_timer, idle_unload_seconds, budget, outside, lock>>
    /\ UNCHANGED <<workers, ui, gen>>

\* line 409: unload()
timer_unload_enter(t) ==
    /\ timers[t] = "unload"
    /\ unload_enter(T(t))
    /\ timers' = [timers EXCEPT ![t] = "un_exit"]
    /\ UNCHANGED <<workers, ui, gen, idleUnloads>>

timer_unload_exit(t) ==
    /\ timers[t] = "un_exit"
    /\ unload_exit(T(t))
    /\ timers' = [timers EXCEPT ![t] = "done"]
    /\ UNCHANGED <<workers, ui, gen, idleUnloads>>

TimerStep ==
    \/ \E t \in DOMAIN timers : timer_fire(t)
    \/ \E t \in DOMAIN timers : timer_unload_enter(t)
    \/ \E t \in DOMAIN timers : timer_unload_exit(t)

-----------------------------------------------------------------------------
(* Model selection: detect_vram_gb and auto_select_model_key, lines 105-115 *)

\* Python's a or b, a an optional number, b a number: b when a is None or zero
or_(a, b) == IF a = <<>> THEN b ELSE IF a[1] = 0 THEN b ELSE a[1]

\* detect_vram_gb(), lines 105-108
detect_vram_gb == total_memory_gb

\* line 111: the limit the selection works with
effective_limit == or_(vram_limit_gb, detect_vram_gb)

\* the comparison of line 113 with < for <=
fits_below(req, limit) == req < or_(<<limit>>, 0)

\* line 113: req <= (limit or 0)
fits(req, limit) == req <= or_(<<limit>>, 0)

\* line 112: sorted(VRAM_REQ_GB.items(), key=lambda x: -x[1]), the keys of S by
\* descending footprint
RECURSIVE sorted_desc(_)
sorted_desc(S) ==
    IF S = {} THEN <<>>
    ELSE LET k == CHOOSE x \in S : \A y \in S : VRAM_REQ_GB[y] <= VRAM_REQ_GB[x]
         IN <<k>> \o sorted_desc(S \ {k})

\* line 115: min(VRAM_REQ_GB, key=VRAM_REQ_GB.get)
smallest ==
    CHOOSE x \in DOMAIN VRAM_REQ_GB : \A y \in DOMAIN VRAM_REQ_GB : VRAM_REQ_GB[x] <= VRAM_REQ_GB[y]

\* lines 112-115: the first key, in that order, that fits; the smallest when none does
RECURSIVE first_fit(_, _)
first_fit(keys, limit) ==
    IF keys = <<>> THEN smallest
    ELSE IF fits(VRAM_REQ_GB[Head(keys)], limit) THEN Head(keys)
    ELSE first_fit(Tail(keys), limit)

\* auto_select_model_key() is called
auto_select_model_key ==
    /\ selected = None
    /\ selected' = first_fit(sorted_desc(DOMAIN VRAM_REQ_GB), effective_limit)
    /\ UNCHANGED <<model_key, model_name, model, tokenizer, _tokenizer_cache, is_loaded,
                   is_loading, _idle_timer, idle_unload_seconds, lock, statuses, observer>>
    /\ UNCHANGED <<vram_limit_gb, total_memory_gb, workers, timers, ui, gen, idleUnloads>>
    /\ UNCHANGED outside

-----------------------------------------------------------------------------
(* The decoding arguments of the generation entry points *)

\* nothing of a NovaAI manager or its threads changes
nova_unchanged ==
    UNCHANGED <<model_key, model_name, model, tokenizer, _tokenizer_cache, is_loaded,
                is_loading, _idle_timer, idle_unload_seconds, lock, workers, timers,
                ui, gen, statuses, idleUnloads, callbacks, escaped, vram_limit_gb,
                total_memory_gb, selected>>

\* an entry point has built the arguments kw
decoded(kw) ==
    /\ ~decode.called
    /\ decode' = [decode EXCEPT !.called = TRUE, !.kwargs = kw]
    /\ nova_unchanged
    /\ UNCHANGED <<stream, chat, local, coord>>

\* NovaAI.generate, lines 281-293 (top_p 0.9 and temperature in tenths)
generate_kwargs ==
    /\ decode.entry = "NovaAI.generate"
    /\ LET temperature == decode.temperature
       IN decoded(IF temperature > 0
                  THEN [do_sample |-> temperature > 0, temperature |-> <<temperature>>,
                        top_p |-> <<9>>, top_k |-> <<50>>]
                  ELSE [do_sample |-> temperature > 0, temperature |-> <<>>,
                        top_p |-> <<>>, top_k |-> <<>>])

\* NovaAI.generate_stream, lines 327-335
generate_stream_kwargs ==
    /\ decode.entry = "NovaAI.generate_stream"
    /\ LET temperature == decode.temperature
       IN decoded(IF temperature > 0
                  THEN [do_sample |-> temperature > 0, temperature |-> <<temperature>>,
                        top_p |-> <<9>>, top_k |-> <<>>]
                  ELSE [do_sample |-> temperature > 0, temperature |-> <<>>,
                        top_p |-> <<>>, top_k |-> <<>>])

\* LocalAI.generate, src/ai/local_ai.py lines 313-320
local_generate_kwargs ==
    /\ decode.entry = "LocalAI.generate"
    /\ LET temperature == decode.temperature
       IN decoded([do_sample |-> TRUE, temperature |-> <<temperature>>,
                   top_p |-> <<9>>, top_k |-> <<>>])

-----------------------------------------------------------------------------
(* generate_stream, lines 309-345.  The consumer runs the generator body; the *)
(* generation runs in a thread of its own and hands the fragments over through *)
(* the queue of the TextIteratorStreamer, whose iterator blocks on an empty    *)
(* queue (no timeout is passed at line 325) and stops at the stop signal that   *)
(* the generation puts when it ends.                                           *)

StopSignal == "stop"

\* a step of the stream that leaves the manager alone
stream_only == nova_unchanged /\ UNCHANGED <<decode, chat, local, coord>>

\* the consumer asks for the first fragment: the generator body starts
stream_call ==
    /\ stream.pc = "idle"
    /\ stream' = [stream EXCEPT !.pc = "check"]
    /\ stream_only

\* lines 312-314: the Ready check
stream_check ==
    /\ stream.pc = "check"
    /\ stream' = IF ~is_loaded \/ model = None
                 THEN [stream EXCEPT !.pc = "done", !.last = NotReady]
                 ELSE [stream EXCEPT !.pc = "reset"]
    /\ stream_only

\* line 315: _reset_idle_timer(), lines 387-405
stream_reset_idle_timer ==
    /\ stream.pc = "reset"
    /\ stream' = [stream EXCEPT !.pc = "start"]
    /\ timers' = IF idle_disabled THEN cancel(timers, _idle_timer)
                 ELSE Append(cancel(timers, _idle_timer), "armed")
    /\ _idle_timer' = IF idle_disabled THEN 0 ELSE Len(timers) + 1
    /\ UNCHANGED <<model_key, model_name, model, tokenizer, _tokenizer_cache, is_loaded,
                   is_loading, idle_unload_seconds, budget, lock, statuses, observer>>
    /\ UNCHANGED <<workers, ui, gen, idleUnloads, decode, chat, local, coord>>

\* lines 318-338: the inputs and the streamer are made, the thread is started
stream_thread_start ==
    /\ stream.pc = "start"
    /\ stream' = [stream EXCEPT !.pc = "iterate", !.thread = "started"]
    /\ stream_only

\* line 337, in the thread: self.model is read; an absent handle is an
\* AttributeError that ends the thread
stream_thread_run ==
    /\ stream.thread = "started"
    /\ stream' = [stream EXCEPT !.thread = IF model = None THEN "died" ELSE "running"]
    /\ stream_only

\* the generation puts a fragment into the streamer
stream_thread_put ==
    /\ stream.thread = "running"
    /\ stream.made < MaxFragments
    /\ stream' = [stream EXCEPT !.queue = Append(@, Text), !.made = @ + 1]
    /\ stream_only

\* the generation ends: streamer.end() puts the stop signal
stream_thread_end ==
    /\ stream.thread = "running"
    /\ stream' = [stream EXCEPT !.queue = Append(@, StopSignal), !.thread = "ended"]
    /\ stream_only

\* the generation raises (out of memory): the exception ends the thread
stream_thread_raises ==
    /\ stream.thread = "running"
    /\ stream' = [stream EXCEPT !.thread = "died"]
    /\ stream_only

\* lines 340-343: the iterator of the streamer takes the next item off the
\* queue, waiting while there is none; a fragment is yielded, the stop signal
\* ends the loop and the thread is joined
stream_next ==
    /\ stream.pc = "iterate"
    /\ stream.queue # <<>>
    /\ stream' = IF Head(stream.queue) = StopSignal
                 THEN [stream EXCEPT !.pc = "done", !.queue = Tail(@)]
                 ELSE [stream EXCEPT !.queue = Tail(@), !.last = Text]
    /\ stream_only

\* the steps of the consumer
StreamConsume ==
    \/ stream_check
    \/ stream_reset_idle_timer
    \/ stream_thread_start
    \/ stream_next

\* the steps of the generation thread
StreamThread ==
    \/ stream_thread_run
    \/ stream_thread_put
    \/ stream_thread_end
    \/ stream_thread_raises

StreamStep == stream_call \/ StreamConsume \/ StreamThread

-----------------------------------------------------------------------------
(* The chat workers: AIWorker.run (src/ui/ai_console_page.py, lines 40-60) and *)
(* OptimizedAIWorker.process (src/ai/ai_tool_coordinator.py, lines 216-242).   *)
(* chat.tool tells whether coordinator.process_message answers the prompt (a   *)
(* tool match); stop() can be called at any time.                              *)

\* a step of the chat worker that leaves everything else alone
chat_only == nova_unchanged /\ UNCHANGED <<decode, stream, local, coord>>

\* stop(): the flag is set; stoppedAt records where the worker was
stop ==
    /\ chat.pc # "none"
    /\ ~chat._stopped
    /\ chat' = [chat EXCEPT !._stopped = TRUE, !.stoppedAt = chat.pc]
    /\ chat_only

\* AIWorker.run, lines 41-42
run_stopped ==
    /\ chat.kind = "AIWorker"
    /\ chat.pc = "new"
    /\ chat' = [chat EXCEPT !.pc = IF chat._stopped THEN "done"
                                   ELSE IF chat.coordinator THEN "tool" ELSE "check"]
    /\ chat_only

\* AIWorker.run, lines 45-49: a tool response is emitted at once
run_tool ==
    /\ chat.kind = "AIWorker"
    /\ chat.pc = "tool"
    /\ chat' = IF chat.tool
               THEN [chat EXCEPT !.pc = "done", !.emitted = "tool response"]
               ELSE [chat EXCEPT !.pc = "check"]
    /\ chat_only

\* AIWorker.run, lines 52-53
run_check ==
    /\ chat.kind = "AIWorker"
    /\ chat.pc = "check"
    /\ chat' = [chat EXCEPT !.pc = IF chat._stopped THEN "done" ELSE "generate"]
    /\ chat_only

\* OptimizedAIWorker.process, lines 219-224
process_tool ==
    /\ chat.kind = "OptimizedAIWorker"
    /\ chat.pc = "new"
    /\ chat' = IF chat.tool
               THEN [chat EXCEPT !.pc = "done", !.emitted = "tool response"]
               ELSE [chat EXCEPT !.pc = "check"]
    /\ chat_only

\* OptimizedAIWorker.process, lines 227-228 and 241-242: the thread is started
process_check ==
    /\ chat.kind = "OptimizedAIWorker"
    /\ chat.pc = "check"
    /\ chat' = [chat EXCEPT !.pc = IF chat._stopped THEN "done" ELSE "thread"]
    /\ chat_only

\* OptimizedAIWorker.process._generate, lines 231-232
_generate_stopped ==
    /\ chat.kind = "OptimizedAIWorker"
    /\ chat.pc = "thread"
    /\ chat' = [chat EXCEPT !.pc = IF chat._stopped THEN "done" ELSE "generate"]
    /\ chat_only

\* self.ai.generate(...) is called (lines 54 and 233)
chat_generate ==
    /\ chat.pc = "generate"
    /\ chat' = [chat EXCEPT !.pc = "generating", !.generated = TRUE]
    /\ chat_only

\* ... and returns
chat_generate_returns ==
    /\ chat.pc = "generating"
    /\ chat' = [chat EXCEPT !.pc = "result"]
    /\ chat_only

\* the result is emitted unless the worker was stopped (lines 59-60 and 238-239)
chat_emit_result ==
    /\ chat.pc = "result"
    /\ chat' = IF ~chat._stopped
               THEN [chat EXCEPT !.pc = "done", !.emitted = "result"]
               ELSE [chat EXCEPT !.pc = "done"]
    /\ chat_only

ChatStep ==
    \/ stop
    \/ run_stopped
    \/ run_tool
    \/ run_check
    \/ process_tool
    \/ process_check
    \/ _generate_stopped
    \/ chat_generate
    \/ chat_generate_returns
    \/ chat_emit_result

-----------------------------------------------------------------------------
(* LocalAI.start_load, src/ai/local_ai.py lines 251-292, called by the threads *)
(* of Callers; the load workers are the _do_load threads it starts.  The idle  *)
(* timer a worker arms does not elapse within a load.                          *)

\* a step of LocalAI that leaves everything else alone
local_only == nova_unchanged /\ UNCHANGED <<decode, stream, chat, coord>>

\* thread c calls start_load()
local_call(c) ==
    /\ local.pc[c] = "idle"
    /\ local' = [local EXCEPT !.pc[c] = "start_load"]
    /\ local_only

\* lines 257-258: the flags are read
local_start_load_check(c) ==
    /\ local.pc[c] = "start_load"
    /\ local' = [local EXCEPT !.pc[c] = IF local.is_loading \/ local.is_loaded
                                        THEN "no-op" ELSE "set"]
    /\ local_only

\* line 259
local_start_load_set(c) ==
    /\ local.pc[c] = "set"
    /\ local' = [local EXCEPT !.is_loading = TRUE, !.pc[c] = "spawn"]
    /\ local_only

\* lines 291-292: the worker thread is started
local_start_load_spawn(c) ==
    /\ local.pc[c] = "spawn"
    /\ local' = [local EXCEPT !.workers = Append(@, "begin"), !.pc[c] = "spawned"]
    /\ local_only

\* _do_load, lines 263-267: unload_model(), lines 153-185
local_unload_model(i) ==
    /\ local.workers[i] = "begin"
    /\ local' = [local EXCEPT !.model = None, !.is_loaded = FALSE, !.workers[i] = "tokenizer"]
    /\ local_only

\* lines 269-270
local_tokenizer(i) ==
    /\ local.workers[i] = "tokenizer"
    /\ local' = [local EXCEPT !.tokenizer = "tokenizer", !.workers[i] = "model"]
    /\ local_only

\* lines 272-273
local_model(i) ==
    /\ local.workers[i] = "model"
    /\ local' = [local EXCEPT !.model = "model", !.workers[i] = "loaded"]
    /\ local_only

\* ... or _load_model() raises: lines 287-289
local_model_raises(i) ==
    /\ local.workers[i] = "model"
    /\ local' = [local EXCEPT !.is_loading = FALSE, !.workers[i] = "failed"]
    /\ local_only

\* line 274
local_set_loaded(i) ==
    /\ local.workers[i] = "loaded"
    /\ local' = [local EXCEPT !.is_loaded = TRUE, !.workers[i] = "ready"]
    /\ local_only

\* line 275
local_clear_loading(i) ==
    /\ local.workers[i] = "ready"
    /\ local' = [local EXCEPT !.is_loading = FALSE, !.workers[i] = "timer"]
    /\ local_only

\* lines 276-286: callbacks, benchmark, then the idle timer is armed by worker i
local_start_idle_timer(i) ==
    /\ local.workers[i] = "timer"
    /\ local' = [local EXCEPT !._idle_timer = i, !.workers[i] = "done"]
    /\ local_only

LocalStep ==
    \/ \E c \in Callers : local_call(c)
    \/ \E c \in Callers : local_start_load_check(c)
    \/ \E c \in Callers : local_start_load_set(c)
    \/ \E c \in Callers : local_start_load_spawn(c)
    \/ \E i \in DOMAIN local.workers : local_unload_model(i)
    \/ \E i \in DOMAIN local.workers : local_tokenizer(i)
    \/ \E i \in DOMAIN local.workers : local_model(i)
    \/ \E i \in DOMAIN local.workers : local_model_raises(i)
    \/ \E i \in DOMAIN local.workers : local_set_loaded(i)
    \/ \E i \in DOMAIN local.workers : local_clear_loading(i)
    \/ \E i \in DOMAIN local.workers : local_start_idle_timer(i)

-----------------------------------------------------------------------------
(* AIToolCoordinator, src/ai/ai_tool_coordinator.py.  A text is the sequence  *)
(* of its characters.  Weights, scores and confidences are exact decimals:    *)
(* weights and scores in tenths, confidences in hundredths (no sum of         *)
(* weights lies on a threshold, so the rounding of the floats decides         *)
(* nothing).                                                                   *)

\* ToolType, lines 15-20, in the order of TOOL_PATTERNS
ToolTypes == <<"sfc", "dism", "cleanup", "smartscan">>

\* TOOL_PATTERNS, lines 38-59: the keywords of each tool
TOOL_PATTERNS ==
    [t \in {"sfc", "dism", "cleanup", "smartscan"} |->
        CASE t = "sfc" -> <<<<"s", "f", "c">>,
                            <<"s", "y", "s", "t", "e", "m", " ", "f", "i", "l", "e", " ", "c", "h", "e", "c", "k", "e", "r">>,
                            <<"r", "e", "p", "a", "i", "r", " ", "s", "y", "s", "t", "e", "m", " ", "f", "i", "l", "e", "s">>,
                            <<"c", "o", "r", "r", "u", "p", "t", "e", "d", " ", "f", "i", "l", "e", "s">>,
                            <<"f", "i", "x", " ", "w", "i", "n", "d", "o", "w", "s", " ", "f", "i", "l", "e", "s">>,
                            <<"s", "c", "a", "n", " ", "s", "y", "s", "t", "e", "m">>,
                            <<"s", "c", "a", "n", "n", "o", "w">>,
                            <<"r", "e", "p", "a", "i", "r", " ", "w", "i", "n", "d", "o", "w", "s">>>>
          [] t = "dism" -> <<<<"d", "i", "s", "m">>,
                             <<"s", "y", "s", "t", "e", "m", " ", "i", "m", "a", "g", "e">>,
                             <<"r", "e", "s", "t", "o", "r", "e", " ", "h", "e", "a", "l", "t", "h">>,
                             <<"r", "e", "p", "a", "i", "r", " ", "i", "m", "a", "g", "e">>,
                             <<"w", "i", "n", "d", "o", "w", "s", " ", "i", "m", "a", "g", "e">>,
                             <<"c", "o", "m", "p", "o", "n", "e", "n", "t", " ", "s", "t", "o", "r", "e">>,
                             <<"f", "i", "x", " ", "i", "m", "a", "g", "e">>>>
          [] t = "cleanup" -> <<<<"c", "l", "e", "a", "n", "u", "p">>,
                                <<"c", "l", "e", "a", "n", " ", "u", "p">>,
                                <<"t", "e", "m", "p", " ", "f", "i", "l", "e", "s">>,
                                <<"t", "e", "m", "p", "o", "r", "a", "r", "y", " ", "f", "i", "l", "e", "s">>,
                                <<"c", "l", "e", "a", "r", " ", "c", "a", "c", "h", "e">>,
                                <<"d", "e", "l", "e", "t", "e", " ", "t", "e", "m", "p">>,
                                <<"f", "r", "e", "e", " ", "s", "p", "a", "c", "e">>,
                                <<"d", "i", "s", "k", " ", "c", "l", "e", "a", "n", "u", "p">>,
                                <<"p", "r", "e", "f", "e", "t", "c", "h">>,
                                <<"j", "u", "n", "k", " ", "f", "i", "l", "e", "s">>>>
          [] t = "smartscan" -> <<<<"v", "i", "r", "u", "s">>,
                                  <<"m", "a", "l", "w", "a", "r", "e">>,
                                  <<"v", "i", "r", "u", "s", "t", "o", "t", "a", "l">>,
                                  <<"s", "c", "a", "n", " ", "f", "i", "l", "e", "s">>,
                                  <<"s", "m", "a", "r", "t", "s", "c", "a", "n">>,
                                  <<"c", "h", "e", "c", "k", " ", "f", "o", "r", " ", "v", "i", "r", "u", "s">>,
                                  <<"s", "e", "c", "u", "r", "i", "t", "y", " ", "s", "c", "a", "n">>,
                                  <<"i", "n", "f", "e", "c", "t", "e", "d">>,
                                  <<"t", "h", "r", "e", "a", "t">>>>]

\* _is_confirmation, lines 159-160
confirmations ==
    <<<<"y", "e", "s">>,
      <<"y">>,
      <<"y", "e", "a", "h">>,
      <<"y", "e", "p">>,
      <<"s", "u", "r", "e">>,
      <<"o", "k">>,
      <<"o", "k", "a", "y">>,
      <<"g", "o", " ", "a", "h", "e", "a", "d">>,
      <<"d", "o", " ", "i", "t">>,
      <<"r", "u", "n", " ", "i", "t">>,
      <<"s", "t", "a", "r", "t">>,
      <<"p", "r", "o", "c", "e", "e", "d">>,
      <<"p", "l", "e", "a", "s", "e">>,
      <<"a", "f", "f", "i", "r", "m", "a", "t", "i", "v", "e">>>>

\* _is_rejection, line 164
rejections ==
    <<<<"n", "o">>,
      <<"n">>,
      <<"n", "o", "p", "e">>,
      <<"c", "a", "n", "c", "e", "l">>,
      <<"s", "t", "o", "p">>,
      <<"d", "o", "n", "'", "t">>,
      <<"n", "e", "v", "e", "r", "m", "i", "n", "d">>,
      <<"n", "e", "v", "e", "r", " ", "m", "i", "n", "d">>>>

\* the messages the user types
Messages ==
    {<<"r", "u", "n", " ", "s", "f", "c">>,
     <<"s", "y", "s", "t", "e", "m", " ", "f", "i", "l", "e", " ", "c", "h", "e", "c", "k", "e", "r">>,
     <<"c", "l", "e", "a", "n", " ", "u", "p", " ", "t", "e", "m", "p", " ", "f", "i", "l", "e", "s">>,
     <<"y", "e", "s">>,
     <<" ", "Y", "e", "s", " ">>,
     <<"n", "o">>,
     <<"n", "o", " ", "w", "a", "y">>,
     <<"d", "o", "n", "'", "t", " ", "d", "o", " ", "i", "t">>,
     <<"c", "a", "n", "c", "e", "l">>,
     <<"h", "e", "l", "l", "o">>}

UpperCase == <<"A", "B", "C", "D", "E", "F", "G", "H", "I", "J", "K", "L", "M", "N", "O", "P", "Q", "R", "S", "T", "U", "V", "W", "X", "Y", "Z">>
LowerCase == <<"a", "b", "c", "d", "e", "f", "g", "h", "i", "j", "k", "l", "m", "n", "o", "p", "q", "r", "s", "t", "u", "v", "w", "x", "y", "z">>

\* str.lower()
lower(text) ==
    [i \in DOMAIN text |->
        IF \E j \in DOMAIN UpperCase : UpperCase[j] = text[i]
        THEN LowerCase[CHOOSE j \in DOMAIN UpperCase : UpperCase[j] = text[i]]
        ELSE text[i]]

\* str.strip(): the text without the white space at its ends
RECURSIVE strip(_)
strip(text) ==
    IF text = <<>> THEN text
    ELSE IF Head(text) = " " THEN strip(Tail(text))
    ELSE IF text[Len(text)] = " " THEN strip(SubSeq(text, 1, Len(text) - 1))
    ELSE text

\* keyword in text: keyword is a substring of text
contains(text, keyword) ==
    \E i \in 0..(Len(text) - Len(keyword)) : SubSeq(text, i + 1, i + Len(keyword)) = keyword

\* any(k in text for k in keywords)
contains_any(text, keywords) == \E j \in DOMAIN keywords : contains(text, keywords[j])

\* len(keyword.split()): the number of words
words(keyword) ==
    Cardinality({i \in DOMAIN keyword :
                    keyword[i] # " " /\ (i = 1 \/ keyword[i - 1] = " ")})

\* line 128: len(keyword.split()) * 0.3 + 0.7, in tenths
weight(keyword) == words(keyword) * 3 + 7

\* lines 122-130: the sum of the weights of the keywords of the list found in text
RECURSIVE score(_, _)
score(keywords, text) ==
    IF keywords = <<>> THEN 0
    ELSE (IF contains(text, Head(keywords)) THEN weight(Head(keywords)) ELSE 0)
            + score(Tail(keywords), text)

\* line 139: max(scores, key=...), the first tool of highest score among tools
RECURSIVE best(_, _)
best(tools, text) ==
    IF Len(tools) = 1 THEN Head(tools)
    ELSE LET b == best(Tail(tools), text)
         IN IF score(TOOL_PATTERNS[Head(tools)], text) >= score(TOOL_PATTERNS[b], text)
            THEN Head(tools) ELSE b

\* no match (None of line 136)
NoMatch == [tool |-> "none", confidence |-> 0]

\* _fast_match, lines 117-156: the best tool and min(1.0, score / 2.0), in hundredths
_fast_match(text) ==
    LET scored == SelectSeq(ToolTypes, LAMBDA t : score(TOOL_PATTERNS[t], text) > 0)
    IN IF scored = <<>> THEN NoMatch
       ELSE LET best_tool == best(scored, text)
                best_score == score(TOOL_PATTERNS[best_tool], text)
            IN [tool |-> best_tool,
                confidence |-> IF best_score * 5 > 100 THEN 100 ELSE best_score * 5]

\* _is_confirmation, lines 158-161
_is_confirmation(text) == contains_any(text, confirmations)

\* _is_rejection, lines 163-165
_is_rejection(text) == contains_any(text, rejections)

\* a pending confirmation is set for a match of any confidence that earns a question
high_confidence_lowered(match) == match # NoMatch /\ match.confidence >= 40

\* line 103: match and match.confidence >= 0.7
high_confidence(match) == match # NoMatch /\ match.confidence >= 70

\* line 109: match and match.confidence >= 0.4
medium_confidence(match) == match # NoMatch /\ match.confidence >= 40

\* the message is handled: what is pending, the answer (its kind, the tool it names),
\* the tool launched by tool_requested.emit, the tools offered so far
handled(msg, match, pending, response, named, launched) ==
    coord' = [coord EXCEPT !.n = @ + 1, !.msg = msg, !.match = match,
                           !._pending_confirmation = pending, !.response = response,
                           !.named = named, !.launched = launched,
                           !.prompted = IF response = "offer" THEN @ \cup {named} ELSE @]

\* _execute_tool, lines 167-182, called at line 95 with nothing pending any more
_execute_tool(msg, tool) ==
    IF ~coord.clean_tune_page
    THEN handled(msg, NoMatch, None, "not connected", tool, None)
    ELSE handled(msg, NoMatch, None, "starting", tool, tool)

\* process_message, lines 81-115
process_message(user_input) ==
    /\ coord.n < MaxMsgs
    /\ LET text == strip(lower(user_input))
           match == _fast_match(text)
       IN IF coord._pending_confirmation # None /\ _is_confirmation(text)
          THEN _execute_tool(user_input, coord._pending_confirmation)
          ELSE IF coord._pending_confirmation # None /\ _is_rejection(text)
          THEN handled(user_input, NoMatch, None, "refused", None, None)
          ELSE IF high_confidence(match)
          THEN handled(user_input, match, match.tool, "offer", match.tool, None)
          ELSE IF medium_confidence(match)
          THEN handled(user_input, match, coord._pending_confirmation, "clarify",
                       match.tool, None)
          ELSE handled(user_input, match, coord._pending_confirmation, "no answer",
                       None, None)
    /\ nova_unchanged
    /\ UNCHANGED <<decode, stream, chat, local>>

CoordStep == \E user_input \in Messages : process_message(user_input)

\* set_clean_tune_page, lines 78-79: the tools page is connected, or taken away
set_clean_tune_page(page) ==
    /\ coord.n < MaxMsgs
    /\ page # coord.clean_tune_page
    /\ coord' = [coord EXCEPT !.clean_tune_page = page]
    /\ nova_unchanged
    /\ UNCHANGED <<decode, stream, chat, local>>

PageStep == \E page \in BOOLEAN : set_clean_tune_page(page)

-----------------------------------------------------------------------------
Next == UIStep \/ WorkerStep \/ GenStep \/ TimerStep

Spec == Init /\ [][Next]_vars

\* the manager when the chat thread never calls generate
NextLoad == UIStep \/ WorkerStep \/ TimerStep

SpecLoad == Init /\ [][NextLoad]_vars

\* the same with callbacks that return or callbacks that raise on every invocation
InitObservers ==
    /\ constructed
    /\ quiet
    /\ unused
    /\ callbacks \in {"ok", "raise"}
    /\ vram_limit_gb = <<>>
    /\ total_memory_gb = 0

SpecObservers == InitObservers /\ [][NextLoad]_vars

\* unload() called, and called again, on a manager in any state it can be in when
\* no call and no thread is in progress
InitUnload ==
    /\ model_key \in SwitchKeys \cap DOMAIN MODELS
    /\ model_name = MODELS[model_key]
    /\ model \in {None} \cup Sources
    /\ tokenizer \in {None} \cup Sources
    /\ model # None => tokenizer # None
    /\ _tokenizer_cache \in [Sources -> {None} \cup Sources]
    /\ is_loaded \in BOOLEAN
    /\ is_loading = FALSE
    /\ _idle_timer = 0
    /\ idle_unload_seconds \in IdleSettings
    /\ lock = NoThread
    /\ escaped = FALSE
    /\ selected = None
    /\ quiet
    /\ unused
    /\ callbacks = "ok"
    /\ vram_limit_gb = <<>>
    /\ total_memory_gb = 0

NextUnload == ui_call_unload \/ ui_unload_enter \/ ui_unload_exit

SpecUnload == InitUnload /\ [][NextUnload]_vars

\* model selection on a new manager, for every ceiling and every accelerator
InitSelect ==
    /\ constructed
    /\ quiet
    /\ unused
    /\ callbacks = "ok"
    /\ vram_limit_gb \in {<<>>} \cup {<<v>> : v \in 0..MaxVram}
    /\ total_memory_gb \in 0..MaxVram

NextSelect == auto_select_model_key

SpecSelect == InitSelect /\ [][NextSelect]_vars

\* the status messages of a load that succeeds (lines 130, 148, 166, 199, 211, 218)
LoadStatuses ==
    {"Beginning model load...", "Unloading model...", "Loading tokenizer...",
     "Loading model weights...", "Finalizing...", "Model ready"}

\* a manager whose first start_load() has run to its end: the default model is
\* installed, its tokenizer is cached, the idle timer is armed where there is
\* one; the worker thread has ended and the calls are counted from here
InitWarm ==
    /\ model_key = DefaultModelKey
    /\ model_name = MODELS[DefaultModelKey]
    /\ model = MODELS[DefaultModelKey]
    /\ tokenizer = MODELS[DefaultModelKey]
    /\ _tokenizer_cache = [s \in Sources |-> IF s = MODELS[DefaultModelKey] THEN s ELSE None]
    /\ is_loaded = TRUE
    /\ is_loading = FALSE
    /\ idle_unload_seconds \in IdleSettings
    /\ _idle_timer = (IF idle_disabled THEN 0 ELSE 1)
    /\ timers = (IF idle_disabled THEN <<>> ELSE <<"armed">>)
    /\ lock = NoThread
    /\ escaped = FALSE
    /\ selected = None
    /\ workers = <<>>
    /\ ui = [pc |-> "idle", calls |-> 0, op |-> None, key |-> None, path |-> None]
    /\ gen = [pc |-> "idle", calls |-> 0, t |-> 0, ret |-> None]
    /\ statuses = LoadStatuses
    /\ idleUnloads = -1
    /\ unused
    /\ callbacks = "ok"
    /\ vram_limit_gb = <<>>
    /\ total_memory_gb = 0

SpecWarm == InitWarm /\ [][NextLoad]_vars

\* every entry point, called with every temperature from -MaxTemp to MaxTemp
InitDecode ==
    /\ constructed
    /\ quiet
    /\ callbacks = "ok"
    /\ vram_limit_gb = <<>>
    /\ total_memory_gb = 0
    /\ decode \in [entry : Entries, temperature : (0 - MaxTemp)..MaxTemp,
                    called : {FALSE}, kwargs : {NoKwargs}]
    /\ no_stream /\ no_chat /\ no_local /\ no_coord

NextDecode == generate_kwargs \/ generate_stream_kwargs \/ local_generate_kwargs

SpecDecode == InitDecode /\ [][NextDecode]_vars

\* generate_stream() on a manager that has loaded its model, while unload() is
\* called and the idle timer may fire; the consumer and the generation thread
\* are scheduled fairly
NextStream == StreamStep \/ ui_call_unload \/ ui_unload_enter \/ ui_unload_exit \/ TimerStep

SpecStream ==
    /\ InitWarm
    /\ [][NextStream]_vars
    /\ WF_vars(StreamConsume)
    /\ WF_vars(StreamThread)

\* a chat worker of either kind, for a prompt that matches a tool or does not
\* (an AIWorker may have no coordinator, an OptimizedAIWorker always has one)
InitChat ==
    /\ constructed
    /\ quiet
    /\ callbacks = "ok"
    /\ vram_limit_gb = <<>>
    /\ total_memory_gb = 0
    /\ no_decode /\ no_stream /\ no_local /\ no_coord
    /\ chat \in [kind : ChatWorkers, coordinator : BOOLEAN, tool : BOOLEAN,
                  _stopped : {FALSE}, pc : {"new"}, stoppedAt : {None},
                  generated : {FALSE}, emitted : {None}]
    /\ chat.kind = "OptimizedAIWorker" => chat.coordinator

NextChat == ChatStep

SpecChat == InitChat /\ [][NextChat]_vars

\* a new LocalAI manager (Unloaded) and two threads that each call start_load()
InitLocal ==
    /\ constructed
    /\ quiet
    /\ callbacks = "ok"
    /\ vram_limit_gb = <<>>
    /\ total_memory_gb = 0
    /\ no_decode /\ no_stream /\ no_chat /\ no_coord
    /\ local = [is_loading |-> FALSE, is_loaded |-> FALSE, model |-> None, tokenizer |-> None,
                _idle_timer |-> 0, pc |-> [c \in Callers |-> "idle"], workers |-> <<>>]

NextLocal == LocalStep

SpecLocal == InitLocal /\ [][NextLocal]_vars

\* a coordinator with or without the tools page, given up to MaxMsgs messages
InitCoord ==
    /\ constructed
    /\ quiet
    /\ callbacks = "ok"
    /\ vram_limit_gb = <<>>
    /\ total_memory_gb = 0
    /\ no_decode /\ no_stream /\ no_chat /\ no_local
    /\ coord \in {new_coord(page) : page \in BOOLEAN}

NextCoord == CoordStep \/ PageStep

SpecCoord == InitCoord /\ [][NextCoord]_vars

\* the calls that take _lock, from the UI thread, the load workers and the timer
\* threads, under a scheduler that lets every thread that can run take its step
NextLive == NextLoad \/ ui_call_unload

\* the steps of a call the UI thread is in
UIRun ==
    \/ start_load_loaded
    \/ start_load_loading
    \/ switch_model_key
    \/ switch_model_name
    \/ ui_unload_enter
    \/ ui_unload_exit
    \/ shutdown_cancel
    \/ shutdown_clear

\* the steps of load worker i
WorkerRun(i) ==
    \/ w_begin(i) \/ w_unload_enter(i) \/ w_unload_exit(i)
    \/ w_tokenizer(i) \/ w_tok_cached(i) \/ w_tok_fetch(i) \/ w_tok_fetch_raises(i)
    \/ w_tok_store(i) \/ w_set_tokenizer(i)
    \/ w_weights(i) \/ w_weights_raises(i) \/ w_set_model(i)
    \/ w_set_loaded(i) \/ w_clear_loading(i) \/ w_warmup(i) \/ w_emit_loaded(i)
    \/ w_timer_cancel(i) \/ w_timer_clear(i) \/ w_timer_start(i) \/ w_timer_assign(i)
    \/ w_fail(i) \/ w_fail_status(i)

\* the unload() of timer thread t, once it has fired
TimerRun(t) == timer_unload_enter(t) \/ timer_unload_exit(t)

SpecLive ==
    /\ Init
    /\ [][NextLive]_vars
    /\ WF_vars(UIRun)
    /\ \A i \in 1..MaxCalls : WF_vars(i \in DOMAIN workers /\ WorkerRun(i))
    /\ \A t \in 1..MaxCalls : WF_vars(t \in DOMAIN timers /\ TimerRun(t))

-----------------------------------------------------------------------------
(* Vocabulary of the properties *)

\* the load workers that have not returned from _target yet
Running == {i \in DOMAIN workers : workers[i].pc # "done"}

\* no call of the UI is in progress and every load worker has returned
Settled == ui.pc \in {"idle", "shut"} /\ Running = {}

\* generate() would be accepted
Ready == is_loaded /\ model # None

\* the timers that will still fire
Armed == {t \in DOMAIN timers : timers[t] = "armed"}

\* the UI thread takes a step
UIMoves == ui' # ui

\* the chat thread takes a step
GenMoves == gen' # gen

\* the attributes of the manager that a call without effect leaves alone
Untouched ==
    UNCHANGED <<model_key, model_name, model, tokenizer, _tokenizer_cache, is_loaded,
                is_loading, _idle_timer, idle_unload_seconds, budget, outside, lock, statuses, observer, workers,
                timers>>

-----------------------------------------------------------------------------
(* C1 *)

\* C1: at most one load worker is running at any time, a worker running from its
\* first statement to its return (unload, tokenizer, weights, warm-up, benchmark,
\* callbacks, idle timer): no second worker is spawned before the first returned.
C1_OneLoadAtATime == Cardinality(Running) <= 1

(* C2 *)

\* C2: once the calls have returned and the workers have finished, a Ready manager
\* holds the weights of the model that model_key names.
C2_ReadyForModelKey == (Settled /\ Ready) => model = MODELS[model_key]

(* C3 *)

\* C3: when a load worker whose weight load raised returns, the manager is
\* Unloaded: is_loading and is_loaded are false, the model handle is absent, the
\* load-failure status has been emitted and this worker has not emitted loaded.
C3_FailedLoadLeavesUnloaded ==
    [][\A i \in DOMAIN workers :
        (workers[i].pc = "fail_status" /\ workers[i].out = "weights raised"
            /\ workers'[i].pc = "done")
        => /\ ~is_loading'
           /\ ~is_loaded'
           /\ model' = None
           /\ "Load failed" \in statuses'
           /\ workers'[i].out # "loaded"]_vars

(* C4 *)

\* C4: a start_load() that finds is_loaded true returns at once and changes
\* nothing: flags, handles, tokenizer cache, idle timer, workers, callbacks.
C4_StartLoadWhenReadyIsNoOp ==
    [][(ui.pc = "start_load" /\ is_loaded /\ UIMoves)
        => (ui'.pc = "idle" /\ Untouched)]_vars

\* a start_load() issued on a Ready, settled manager has returned; nothing was
\* spawned and the model is still installed
C4_Witness ==
    /\ ui.pc = "idle" /\ ui.op = "start_load" /\ ui.path = "loaded"
    /\ Ready /\ Len(workers) = 1 /\ workers[1].out = "loaded"

(* C5 *)

\* C5: a generate() that reads is_loaded false, or reads the model handle absent,
\* returns the 'Model not ready' sentinel at once: the model is not invoked, the
\* idle timer is not reset and nothing of the manager changes.
C5_GenerateWhenNotReady ==
    [][((gen.pc = "generate" /\ ~is_loaded /\ GenMoves)
          \/ (gen.pc = "g_model" /\ model = None /\ GenMoves))
        => (gen'.pc = "idle" /\ gen'.ret = NotReady /\ Untouched)]_vars

\* generate() has returned the sentinel while a load was in flight
C5_Witness ==
    /\ gen.pc = "idle" /\ gen.ret = NotReady
    /\ is_loading /\ ~Ready /\ Running # {}

(* C6 *)

\* C6: with idle_unload_seconds > 0, after a generate() on a Ready manager has
\* returned its text, every load worker has returned and no further public call is
\* issued, the idle timer invokes unload() once, not more (the invocations made
\* and the timers still to fire are one together), and when that unload has
\* finished the manager is Unloaded.
C6_IdleUnloadOnce ==
    (idle_unload_seconds > 0 /\ idleUnloads >= 0 /\ gen.ret = Text /\ Running = {})
    => /\ idleUnloads + Cardinality(Armed) <= 1
       /\ (idleUnloads = 1 /\ \A t \in DOMAIN timers : timers[t] \in {"cancelled", "done"})
            => (~is_loaded /\ model = None)

(* C7 *)

\* C7: a switch_model() that finds a load in flight (is_loading true) is rejected:
\* it returns at once and changes neither model_key, model_name nor anything else.
C7_SwitchWhileLoadingRejected ==
    [][(ui.pc = "switch_model" /\ is_loading /\ UIMoves)
        => (ui'.pc = "idle" /\ Untouched)]_vars

(* C8 *)

\* C8: a switch_model() with a key that is not registered returns the
\* unknown-model error to its caller at once and changes nothing.
C8_UnknownModelRejected ==
    [][(ui.pc = "switch_model" /\ ui.key \notin DOMAIN MODELS /\ UIMoves)
        => (ui'.pc = "idle" /\ ui_ret' = "Unknown model" /\ Untouched)]_vars

\* switch_model() of an unregistered key has returned on a Ready manager
C8_Witness ==
    /\ ui.pc = "idle" /\ ui.op = "switch_model" /\ ui.path = "unknown"
    /\ Ready /\ model = MODELS[model_key]

(* C9 *)

\* C9: a switch_model() to the key of the model the Ready manager holds, no load
\* being in flight, returns at once and changes nothing: nothing is unloaded,
\* is_loaded stays true and no worker is spawned.
C9_SameModelSwitchIsNoOp ==
    [][(ui.pc = "switch_model" /\ ui.key = model_key /\ Ready /\ ~is_loading /\ UIMoves)
        => (ui'.pc = "idle" /\ Untouched)]_vars

(* C10 *)

\* C10: once shutdown() has returned the manager is Unloaded, no idle timer is
\* pending, and it stays so.
C10_ShutdownIsTerminal ==
    ui.pc = "shut" => (~is_loaded /\ model = None /\ _idle_timer = 0 /\ Armed = {})

(* C11 *)

\* a generate() call has passed the test of line 262 and has not returned
InFlight == gen.pc \in {"tc_cancel", "tc_clear", "timer_start", "timer_assign", "run"}

\* C11: while a generate() call that has passed its Ready check is in flight, no
\* unload (idle timer, switch_model, shutdown, load worker) releases the model
\* handle: the handle the call found stays installed until the call returns.
C11_UnloadWaitsForGenerate ==
    [][(InFlight /\ model # None) => model' # None]_vars

(* C12 *)

\* C12: at any time at most one idle timer is armed: every re-arm cancels the
\* timer armed before it, so no timer that _idle_timer no longer names can fire.
C12_OneIdleTimerArmed == Cardinality(Armed) <= 1

(* C13 *)

\* C13: the values a load worker passes to the progress callback never decrease
\* from one to the next, each is within 0..100, and the run that emits the
\* loaded callback has passed 100 last.
C13_ProgressMonotone ==
    [][\A i \in DOMAIN workers :
        /\ workers'[i].prog >= workers[i].prog
        /\ workers'[i].prog \in 0..100
        /\ workers'[i].out = "loaded" => workers'[i].prog = 100]_vars

(* C14 *)

\* worker i has finished warm-up and benchmark (lines 221-226)
Warmed(i) ==
    \/ workers[i].pc \in {"emit_loaded", "tc_cancel", "tc_clear", "timer_start", "timer_assign"}
    \/ workers[i].pc = "done" /\ workers[i].out = "loaded"

\* worker i has armed the idle timer (line 393), where one is to be armed at all
TimerArmedBy(i) ==
    \/ idle_disabled
    \/ workers[i].pc = "timer_assign"
    \/ workers[i].pc = "done" /\ workers[i].out = "loaded"

\* C14: the worker makes the manager Ready last: is_loaded is true only when some
\* worker has finished warm-up and benchmark and has armed the idle timer, and a
\* worker emits the loaded callback only after it armed the idle timer.
C14_ReadyLast ==
    /\ is_loaded => \E i \in DOMAIN workers : Warmed(i) /\ TimerArmedBy(i)
    /\ \A i \in DOMAIN workers : workers[i].out = "loaded" => TimerArmedBy(i)

(* C15 *)

\* C15: a generate() that runs out of accelerator memory returns the out-of-memory
\* message and changes nothing of the manager: a Ready manager is still Ready
\* (is_loaded true, model handle present) when the call has returned.
C15_OutOfMemoryLeavesReady ==
    [][(gen.pc = "run" /\ GenMoves /\ gen'.ret = OutOfMemory)
        => (gen'.pc = "idle" /\ Untouched /\ (Ready => Ready'))]_vars

\* a generate() on a Ready, settled manager has returned the out-of-memory message
C15_Witness ==
    /\ gen.pc = "idle" /\ gen.ret = OutOfMemory
    /\ Ready /\ Running = {} /\ ui.pc = "idle"

(* C16 *)

C18_EveryCallReturns ==
    /\ (ui.pc \notin {"idle", "shut"}) ~> (ui.pc \in {"idle", "shut"})
    /\ \A t \in 1..MaxCalls :
          (t \in DOMAIN timers /\ timers[t] \in {"unload", "un_exit"})
            ~> (t \in DOMAIN timers /\ timers[t] = "done")
    /\ \A i \in 1..MaxCalls :
          (i \in DOMAIN workers /\ workers[i].pc # "done")
            ~> (i \in DOMAIN workers /\ workers[i].pc = "done")

\* a timer thread holds _lock inside its unload() while the UI thread waits for
\* it at the unload() of its own call
C18_Witness ==
    /\ ui.pc = "unload"
    /\ \E t \in DOMAIN timers : timers[t] = "un_exit" /\ lock = T(t)

(* C19 *)

\* the registered models whose footprint does not exceed limit
Fitting(limit) == {k \in DOMAIN VRAM_REQ_GB : VRAM_REQ_GB[k] <= limit}

\* C19: the key selected is, for the limit the selection worked with, the model
\* of largest footprint among those whose footprint is <= the limit, and the
\* model of smallest footprint when none fits.
C19_BestFit ==
    selected # None =>
        IF Fitting(effective_limit) = {}
        THEN \A k \in DOMAIN VRAM_REQ_GB : VRAM_REQ_GB[selected] <= VRAM_REQ_GB[k]
        ELSE /\ selected \in Fitting(effective_limit)
             /\ \A k \in Fitting(effective_limit) : VRAM_REQ_GB[k] <= VRAM_REQ_GB[selected]

\* the selection has been made for a limit equal to the largest footprint, and it
\* is the largest model
C19_Witness ==
    /\ effective_limit = VRAM_REQ_GB["mistral-7b"]
    /\ selected = "mistral-7b"

(* C20 *)

\* C20: the limit the selection works with is min(detected, ceiling) when both
\* are positive, else the one that is set, else 0; so with a ceiling above the
\* detected memory the model selected does not exceed the detected memory,
\* whenever some model fits into it.
C20_EffectiveLimitIsMin ==
    LET ceiling == IF vram_limit_gb = <<>> THEN 0 ELSE vram_limit_gb[1]
        detected == detect_vram_gb
    IN  selected # None =>
          /\ effective_limit =
                IF ceiling > 0 /\ detected > 0
                THEN (IF ceiling < detected THEN ceiling ELSE detected)
                ELSE IF ceiling > 0 THEN ceiling
                ELSE IF detected > 0 THEN detected
                ELSE 0
          /\ (ceiling > detected /\ Fitting(detected) # {})
                => VRAM_REQ_GB[selected] <= detected

(* C21 *)

\* C21: the tokenizer cache only grows: no step removes an entry; and a
\* tokenizer is fetched from the framework (line 153) only for a source that
\* has no entry, so no source is fetched a second time.
C21_CacheFetchedOnce ==
    [][/\ \A s \in Sources : _tokenizer_cache[s] # None => _tokenizer_cache'[s] # None
       /\ \A i \in DOMAIN workers :
            (workers[i].pc = "tok_fetch" /\ workers'[i].pc = "tok_store")
                => _tokenizer_cache[workers'[i].tok] = None]_vars

(* C22 *)

\* C22: every generation entry point selects greedy decoding (sampling off) for
\* a temperature <= 0 and sampling with top-p 0.9 for a temperature > 0.
C22_TemperatureSelectsDecoding ==
    decode.called =>
        IF decode.temperature <= 0
        THEN ~decode.kwargs.do_sample
        ELSE decode.kwargs.do_sample /\ decode.kwargs.top_p = <<9>>

(* C23 *)

\* C23: the iteration of a generate_stream() call that has started comes to an
\* end, whatever the generation thread does and whenever the model is unloaded.
C23_StreamTerminates == (stream.pc # "idle") ~> (stream.pc = "done")

(* C24 *)

\* C24: a chat worker stopped before it started processing neither calls
\* generate() nor emits response_ready, for a tool response as for a
\* generation result; and a worker stopped while generate() was running does
\* not emit the result.
C24_StoppedWorkerIsSilent ==
    /\ chat.stoppedAt = "new" => (~chat.generated /\ chat.emitted = None)
    /\ chat.stoppedAt = "generating" => chat.emitted = None

(* C25 *)

\* the load workers of LocalAI that have ended
LocalEnded == {i \in DOMAIN local.workers : local.workers[i] \in {"done", "failed"}}

\* C25: of two start_load() calls on an Unloaded LocalAI that overlap, one is a
\* no-op: the test of the flags and the setting of is_loading are atomic (no
\* two callers are between them at once), and until a load has ended a single
\* worker has been spawned.
C25_LocalStartLoadOnce ==
    /\ Cardinality({c \in Callers : local.pc[c] \in {"set", "spawn"}}) <= 1
    /\ LocalEnded = {} => Len(local.workers) <= 1

(* C26 *)

\* C26: is_loaded is true only while the model handle is present.
C26_LoadedHasModel == is_loaded => model # None

(* C27 *)

\* C27: whenever the manager is Ready, the installed tokenizer and the installed
\* weights were loaded from the same source.
C27_TokenizerMatchesWeights == Ready => tokenizer = model

(* C28 *)

\* C28: every entry of the tokenizer cache holds the tokenizer that was loaded
\* from the source the entry is filed under.
C28_CacheEntriesMatchSource ==
    \A s \in Sources : _tokenizer_cache[s] # None => _tokenizer_cache[s] = s

(* C29 *)

\* C29: when a worker emits the loaded callback the manager is Ready with the
\* weights this worker loaded and no other load is in flight; and a worker arms
\* the idle timer only on a manager that is Ready with its weights.
C29_LoadedOnlyWhenReady ==
    [][\A i \in DOMAIN workers :
        ((workers[i].pc = "emit_loaded" /\ workers'[i].pc = "tc_cancel")
            \/ (workers[i].pc = "timer_start" /\ workers'[i].pc = "timer_assign"))
        => /\ is_loaded
           /\ model # None
           /\ model = workers[i].mdl
           /\ ~is_loading
           /\ Running = {i}]_vars

(* C30 *)

\* C30: an idle timer is pending only while the manager is Ready, and a timer
\* fires (idle-timeout status, then unload) only on a Ready manager with no
\* load in flight.
C30_IdleTimerOnlyWhenReady ==
    /\ [](Armed # {} => Ready)
    /\ [][\A t \in DOMAIN timers :
            (timers[t] = "armed" /\ timers'[t] = "unload") => (Ready /\ ~is_loading)]_vars

(* C31 *)

\* the manager holds nothing: no model handle, is_loaded false
Unloaded == ~is_loaded /\ model = None

\* C31: a load in flight comes to an end: whenever is_loading is true, it is
\* false at some later time with the manager Ready or Unloaded.
C31_LoadingEnds == is_loading ~> (~is_loading /\ (Ready \/ Unloaded))

(* C32: a tool is launched only by a message handled as a confirmation while  *)
(* a confirmation is pending, and it is the pending tool, offered before, and *)
(* clean_tune_page is set; a confirmation becomes pending only for the tool   *)
(* of a keyword match of confidence 0.7 or more; nothing stays pending after  *)
(* a launch or a refusal.                                                     *)
C32_LaunchOnlyAfterConfirmedPrompt ==
    [][coord'.n = coord.n + 1 =>
        LET text == strip(lower(coord'.msg))
        IN /\ coord'.launched # None =>
                /\ coord._pending_confirmation # None
                /\ _is_confirmation(text)
                /\ coord'.launched = coord._pending_confirmation
                /\ coord'.launched \in coord.prompted
                /\ coord.clean_tune_page
           /\ (coord'._pending_confirmation # None
                    /\ (coord'._pending_confirmation # coord._pending_confirmation
                            \/ coord'.response = "offer")) =>
                /\ coord'.match.confidence >= 70
                /\ coord'.match.tool = coord'._pending_confirmation
           /\ (coord'.launched # None \/ coord'.response \in {"starting", "refused"}) =>
                coord'._pending_confirmation = None]_vars

\* a tool was offered, confirmed and launched
C32_Witness ==
    /\ coord.launched # None
    /\ coord.launched \in coord.prompted
    /\ coord.response = "starting"
    /\ coord._pending_confirmation = None
    /\ coord.clean_tune_page

(* C33: after an answer that asks '(yes/no)' about a tool, for a match of     *)
(* high or of medium confidence, the next message 'yes' launches that tool    *)
(* when clean_tune_page is set.                                               *)
Yes == <<"y", "e", "s">>

C33_YesLaunchesAskedTool ==
    [][(/\ coord'.n = coord.n + 1
        /\ coord.response \in {"offer", "clarify"}
        /\ coord.clean_tune_page
        /\ coord'.msg = Yes) => coord'.launched = coord.named]_vars

(* C34: while a confirmation is pending, a message that contains one of the   *)
(* rejection words 'no', 'nope', 'cancel', 'stop', "don't", 'never mind'      *)
(* launches no tool, clears the pending confirmation and is answered with the *)
(* refusal, whatever else it contains.                                        *)
\* 'no', 'nope', 'cancel', 'stop', "don't", 'never mind' of the rejections of line 164
rejection_words == {rejections[i] : i \in {1, 3, 4, 5, 6, 8}}

C34_RejectionNeverLaunches ==
    [][(/\ coord'.n = coord.n + 1
        /\ coord._pending_confirmation # None
        /\ \E r \in rejection_words : contains(strip(lower(coord'.msg)), r))
            => /\ coord'.launched = None
               /\ coord'._pending_confirmation = None
               /\ coord'.response = "refused"]_vars

=============================================================================
